---------------------------- MODULE Spec2Model ----------------------------
(***************************************************************************)
(* Model of tracker_2.py: the ExpenseTracker window.                       *)
(*                                                                         *)
(* State: the expense list, the table rows, the category drop-down items,  *)
(* the date and time labels, the wall clock, the click being dispatched,   *)
(* where its handler stands, and what the handler showed, wrote or raised. *)
(*                                                                         *)
(* The texts the handlers compute with (amount, category, custom category, *)
(* amount cell) are sequences of Unicode code points, so that str.strip(), *)
(* float() and the f-string are computed character by character.  Amounts  *)
(* are doubles, and sums of amounts are rounded as the sum of two doubles  *)
(* is.  Message texts, paths, dates and times are strings.                 *)
(***************************************************************************)
EXTENDS Integers, Sequences, FiniteSets, TLC

VARIABLES
    expenses,        \* self.expenses: list of dicts amount/category/date/time
    table,           \* self.table: the rows of the QTableWidget
    category_input,  \* the items of the category QComboBox, in order
    date_input,      \* text of the date label
    time_input,      \* text of the time label
    now,             \* the wall clock: index into Timeline
    event,           \* the last click, with the form contents at that click
    pc,              \* where the handler of the last click stands
    messagebox,      \* the QMessageBox the handler of the last click showed
    export,          \* the file dialog and Excel file of the last click
    figure,          \* the pie chart the handler of the last click showed
    uncaught,        \* the exception that escaped the handler of the last click
    running          \* FALSE once the process has been aborted

vars == <<expenses, table, category_input, date_input, time_input, now,
          event, pc, messagebox, export, figure, uncaught, running>>

(***************************************************************************)
(* Bounds of the model.                                                    *)
(***************************************************************************)
MaxRecords == 3

(***************************************************************************)
(* Texts.                                                                  *)
(***************************************************************************)
Food          == <<70, 111, 111, 100>>
Travel        == <<84, 114, 97, 118, 101, 108>>
Utilities     == <<85, 116, 105, 108, 105, 116, 105, 101, 115>>
Entertainment == <<69, 110, 116, 101, 114, 116, 97, 105, 110, 109, 101, 110, 116>>
Others        == <<79, 116, 104, 101, 114, 115>>

\* The items the combo box is filled with at construction.
PresetItems == <<Food, Travel, Utilities, Entertainment, Others>>

\* What the user types into the amount field.
AmountTexts ==
    { <<>>,              \* nothing typed
      <<49, 120>>,       \* "1x": not a number
      <<48, 46, 49>>,    \* "0.1"
      <<160, 55, 9>>,    \* "7" after a no-break space and before a tab
      <<45, 51>> }       \* "-3"

\* What the user types into the custom category field.
CustomTexts ==
    { <<>>,
      <<32, 12288>>,                \* only whitespace: blank, ideographic space
      <<160, 71, 121, 109, 10>> }   \* "Gym" after a no-break space, before a line feed

\* The items the user picks in the drop-down, besides those added at run time.
PickedPresets == {Food, Others}

\* The answers of the save-file dialog: cancelled, a writable file, a file in a
\* place that cannot be written.
WritablePath   == "/home/user/expenses.xlsx"
UnwritablePath == "/proc/expenses.xlsx"
DialogAnswers  == {"", WritablePath, UnwritablePath}

\* The instants the wall clock passes through while the window is open.
Timeline ==
    << [year |-> 2025, month |-> 12, day |-> 31, hour |-> 23, minute |-> 59, second |-> 59],
       [year |-> 2026, month |-> 1,  day |-> 1,  hour |-> 0,  minute |-> 0,  second |-> 0] >>

(***************************************************************************)
(* Library functions the handlers call.  A character is its Unicode code   *)
(* point.                                                                  *)
(***************************************************************************)
Range(s) == {s[i] : i \in 1..Len(s)}

Last(s) == s[Len(s)]

Front(s) == SubSeq(s, 1, Len(s) - 1)

\* The characters str.isspace() holds of: what str.strip() removes.
WhiteSpace ==
    (9..13) \cup (28..32) \cup {133, 160, 5760} \cup (8192..8202)
        \cup {8232, 8233, 8239, 8287, 12288}

IsSpace(c) == c \in WhiteSpace

\* s without its leading characters that are in chars.
lstrip(s, chars) ==
    LET keep == {i \in 1..Len(s) : s[i] \notin chars}
    IN  IF keep = {} THEN <<>>
        ELSE SubSeq(s, CHOOSE i \in keep : \A j \in keep : i <= j, Len(s))

\* s without its trailing characters that are in chars.
rstrip(s, chars) ==
    LET keep == {i \in 1..Len(s) : s[i] \notin chars}
    IN  IF keep = {} THEN <<>>
        ELSE SubSeq(s, 1, CHOOSE i \in keep : \A j \in keep : j <= i)

\* str.strip(): leading and trailing whitespace removed.
strip(s) == rstrip(lstrip(s, WhiteSpace), WhiteSpace)

RECURSIVE Pow(_, _)
Pow(b, n) == IF n = 0 THEN 1 ELSE b * Pow(b, n - 1)

(***************************************************************************)
(* Natural numbers of any size, for the arithmetic of doubles: a number is *)
(* the sequence of its digits in base 10000, the most significant first,   *)
(* without leading zeros; zero is the empty sequence.  Carries are looked  *)
(* ahead rather than passed from digit to digit, and long shifts are done  *)
(* in parts, which keeps the evaluation shallow.  A value that is used     *)
(* more than once is computed where it is passed as an argument.           *)
(***************************************************************************)
Base == Pow(10, 4)

\* The powers of two up to 2^13 and of ten up to 10^4.
PowersOfTwo == [k \in 0..13 |-> Pow(2, k)]

PowersOfTen == [k \in 0..4 |-> Pow(10, k)]

NoLeadingZeros(a) == lstrip(a, {0})

\* The sign of a - b: -1, 0 or 1.
BigCompare(a, b) ==
    IF Len(a) # Len(b) THEN (IF Len(a) < Len(b) THEN 0 - 1 ELSE 1)
    ELSE LET differ == {i \in 1..Len(a) : a[i] # b[i]}
             first  == CHOOSE i \in differ : \A j \in differ : i <= j
         IN  IF differ = {} THEN 0 ELSE IF a[first] < b[first] THEN 0 - 1 ELSE 1

\* a with zeros in front, n digits in all.
Padded(a, n) == [i \in 1..(n - Len(a)) |-> 0] \o a

\* The carry (1 or 0) into digit i of a sequence s of digit sums below twice
\* the base: the nearest digit after i that is not Base - 1 decides.
CarryInto(s, i) ==
    LET decide == {j \in (i + 1)..Len(s) : s[j] # Base - 1}
    IN  IF decide = {} THEN 0
        ELSE IF s[CHOOSE j \in decide : \A l \in decide : j <= l] >= Base THEN 1 ELSE 0

\* The number whose digits, before the carries, are the sums s.
Carried(s) ==
    NoLeadingZeros(<<CarryInto(s, 0)>> \o [i \in 1..Len(s) |-> (s[i] + CarryInto(s, i)) % Base])

\* a + b, for a and b of n digits.
PaddedAdd(a, b) == Carried([i \in 1..Len(a) |-> a[i] + b[i]])

BigAdd(a, b) ==
    IF Len(a) >= Len(b) THEN PaddedAdd(a, Padded(b, Len(a)))
    ELSE PaddedAdd(Padded(a, Len(b)), b)

\* The borrow (1 or 0) from digit i of a sequence s of digit differences: the
\* nearest digit after i that is not 0 decides.
BorrowFrom(s, i) ==
    LET decide == {j \in (i + 1)..Len(s) : s[j] # 0}
    IN  IF decide = {} THEN 0
        ELSE IF s[CHOOSE j \in decide : \A l \in decide : j <= l] < 0 THEN 1 ELSE 0

\* The number whose digits, before the borrows, are the differences s.
Borrowed(s) ==
    NoLeadingZeros([i \in 1..Len(s) |-> (s[i] - BorrowFrom(s, i) + Base) % Base])

\* a - b, for a and b of n digits, a >= b.
PaddedSub(a, b) == Borrowed([i \in 1..Len(a) |-> a[i] - b[i]])

\* a - b, for a >= b.
BigSub(a, b) == PaddedSub(a, Padded(b, Len(a)))

\* a * m, for a small m (m <= 10000): each digit times m is a digit and a
\* carry into the digit before it.
BigTimes(a, m) ==
    Carried([i \in 1..(Len(a) + 1) |->
                (IF i > 1 THEN (a[i - 1] * m) % Base ELSE 0)
                + (IF i <= Len(a) THEN (a[i] * m) \div Base ELSE 0)])

\* What is left of the first i digits of a when divided by d, for d a divisor
\* of Base^4: only the last four of them count.
Remainder(a, i, d) ==
    LET digit(j) == IF j >= 1 THEN a[j] ELSE 0
    IN  IF i < 1 THEN 0
        ELSE ((((((digit(i - 3) % d) * Base + digit(i - 2)) % d) * Base
                 + digit(i - 1)) % d) * Base + digit(i)) % d

\* Quotient and remainder of a by a small d that divides Base^4 (a power of
\* two up to 2^13, a power of ten up to 10^4).
BigDiv(a, d) ==
    [q |-> NoLeadingZeros([i \in 1..Len(a) |->
                              (Remainder(a, i - 1, d) * Base + a[i]) \div d]),
     r |-> Remainder(a, Len(a), d)]

IsOdd(a) == a # <<>> /\ Last(a) % 2 = 1

\* The first part of a shift by k > 13 bits: a multiple of 13, about half.
FirstShift(k) == 13 * ((k \div 13 + 1) \div 2)

RECURSIVE ShiftLeft(_, _)
\* a * 2^k
ShiftLeft(a, k) ==
    IF k = 0 \/ a = <<>> THEN a
    ELSE IF k <= 13 THEN BigTimes(a, PowersOfTwo[k])
    ELSE ShiftLeft(ShiftLeft(a, FirstShift(k)), k - FirstShift(k))

\* A quotient with the note whether something was left.
Shifted(x, sticky) == [q |-> x.q, sticky |-> sticky \/ x.r # 0]

\* The shift rest after the shift first.
ThenShifted(first, rest) == [q |-> rest.q, sticky |-> first.sticky \/ rest.sticky]

RECURSIVE ShiftRight(_, _)
RECURSIVE ShiftOn(_, _)
\* a \div 2^k, and whether a bit that is set was shifted out.
ShiftRight(a, k) ==
    IF k = 0 \/ a = <<>> THEN [q |-> a, sticky |-> FALSE]
    ELSE IF k <= 13 THEN Shifted(BigDiv(a, PowersOfTwo[k]), FALSE)
    ELSE ShiftOn(ShiftRight(a, FirstShift(k)), k - FirstShift(k))

\* The shift by k more bits of what a shift has left.
ShiftOn(first, k) == ThenShifted(first, ShiftRight(first.q, k))

RECURSIVE BitLength(_)
\* The number of binary digits of a.  A digit of base 10000 has more than 13
\* bits, so all but the first digit account for 13 bits each at least.
BitLength(a) ==
    IF a = <<>> THEN 0
    ELSE IF Len(a) = 1
    THEN Cardinality({k \in 0..13 : PowersOfTwo[k] <= a[1]})
    ELSE 13 * (Len(a) - 1) + BitLength(ShiftRight(a, 13 * (Len(a) - 1)).q)

RECURSIVE TrailingZeroBits(_)
RECURSIVE ZeroBits(_)
\* The number of zero bits at the end of a (a not zero).
TrailingZeroBits(a) == ZeroBits(BigDiv(a, PowersOfTwo[13]))

\* The same, of 2^13 * x.q + x.r.
ZeroBits(x) ==
    IF x.r = 0 THEN 13 + TrailingZeroBits(x.q)
    ELSE Cardinality({k \in 1..12 : x.r % PowersOfTwo[k] = 0})

\* How a remainder r of a division by d compares with half of d: -1, 0 or 1.
HalfOf(r, d) == IF 2 * r > d THEN 1 ELSE IF 2 * r = d THEN 0 ELSE 0 - 1

\* A quotient by 10^k with the notes whether nothing was left and how what
\* was left compares with half of 10^k.
Tenths(x, k) == [q |-> x.q, exact |-> x.r = 0, half |-> HalfOf(x.r, PowersOfTen[k])]

\* The division rest after the division first.
ThenDivided(first, rest) ==
    [q |-> rest.q, exact |-> first.exact /\ rest.exact,
     half |-> IF rest.half # 0 \/ first.exact THEN rest.half ELSE 1]

RECURSIVE DivPowerOfTen(_, _)
RECURSIVE DivOn(_, _)
\* floor(a / 10^k), how what is left compares with half of 10^k (-1, 0 or 1),
\* and whether nothing is left.
DivPowerOfTen(a, k) ==
    IF a = <<>> THEN [q |-> a, exact |-> TRUE, half |-> 0 - 1]
    ELSE IF k <= 4 THEN Tenths(BigDiv(a, PowersOfTen[k]), k)
    ELSE DivOn(DivPowerOfTen(a, k \div 2), k - k \div 2)

\* The division by 10^k of what a division has left.
DivOn(first, k) == ThenDivided(first, DivPowerOfTen(first.q, k))

(***************************************************************************)
(* A float is a double: not-a-number, an infinity, or the finite number    *)
(* sig * 2^exp with its sign, zero included (sig is a number of any size   *)
(* below 2^53).  A finite double is kept in one form: exp = 0 for a whole  *)
(* number below 2^53, sig of 53 bits for a larger number, sig odd for a    *)
(* number with a fractional part.                                          *)
(***************************************************************************)
NaN == [class |-> "nan", neg |-> FALSE, sig |-> <<>>, exp |-> 0]

Infinity(neg) == [class |-> "inf", neg |-> neg, sig |-> <<>>, exp |-> 0]

Zero(neg) == [class |-> "finite", neg |-> neg, sig |-> <<>>, exp |-> 0]

Min(m, n) == IF m <= n THEN m ELSE n

\* sig * 2^exp with down bits taken from the end of sig.
Lowered(neg, sig, exp, down) ==
    [class |-> "finite", neg |-> neg, sig |-> ShiftRight(sig, down).q, exp |-> exp + down]

\* sig * 2^exp with up zero bits put at the end of sig.
Raised(neg, sig, exp, up) ==
    [class |-> "finite", neg |-> neg, sig |-> ShiftLeft(sig, up), exp |-> exp - up]

\* The double sig * 2^exp, for sig of length bits.
Scaled(neg, sig, exp, length) ==
    IF sig = <<>> THEN Zero(neg)
    ELSE IF length + exp > 1024 THEN Infinity(neg)
    ELSE IF exp < 0 THEN Lowered(neg, sig, exp, Min(TrailingZeroBits(sig), 0 - exp))
    ELSE IF length > 53 THEN Lowered(neg, sig, exp, 1)
    ELSE Raised(neg, sig, exp, IF exp > 0 /\ length < 53 THEN Min(exp, 53 - length) ELSE 0)

\* The double sig * 2^exp, for sig of at most 53 bits or 2^53 itself: an
\* infinity from 2^1024 on.
Finite(neg, sig, exp) == Scaled(neg, sig, exp, BitLength(sig))

\* The exponent of the last of the 53 bits of a double below 2^top: doubles
\* have no bit below 2^-1074.
LastBit(top) == IF top - 53 >= 0 - 1074 THEN top - 53 ELSE 0 - 1074

\* q, or q + 1 when what was cut off after q is more than half a unit of q
\* (half > 0), or is half a unit (half = 0) and q is odd.
RoundHalfEven(q, half) ==
    IF half > 0 \/ (half = 0 /\ IsOdd(q)) THEN BigAdd(q, <<1>>) ELSE q

\* Half of low.q, rounded to the nearest whole number and to the even one on
\* a tie, where low.sticky tells that low.q is a rest short of the number.
RoundHalf(low) ==
    RoundHalfEven(BigDiv(low.q, 2).q,
                  IF ~IsOdd(low.q) THEN 0 - 1 ELSE IF low.sticky THEN 1 ELSE 0)

\* a / 2^k, k > 0, rounded to the nearest whole number and to the even one on
\* a tie.
RoundShift(a, k) == RoundHalf(ShiftRight(a, k - 1))

\* The double nearest to n * 2^e whose last bit is at 2^lsb.
RoundToBit(neg, n, e, lsb) ==
    Finite(neg, IF lsb <= e THEN n ELSE RoundShift(n, lsb - e),
           IF lsb <= e THEN e ELSE lsb)

\* The double nearest to n * 2^e, the one with the even sig on a tie.
RoundDyadic(neg, n, e) ==
    IF n = <<>> THEN Zero(neg) ELSE RoundToBit(neg, n, e, LastBit(BitLength(n) + e))

\* 10^k
BigPowerOfTen(k) == BigTimes(<<1>> \o [i \in 1..(k \div 4) |-> 0], PowersOfTen[k % 4])

\* The exponent of the first bit of n / ten, which is guess or guess - 1.
FirstBitNear(n, ten, guess) ==
    IF BigCompare(IF guess < 0 THEN ShiftLeft(n, 0 - guess) ELSE n,
                  IF guess > 0 THEN ShiftLeft(ten, guess) ELSE ten) >= 0
    THEN guess ELSE guess - 1

\* The exponent of the first bit of n / ten.
FirstBit(n, ten) == FirstBitNear(n, ten, BitLength(n) - BitLength(ten))

\* The double x.q * 2^lsb, with x.q one more when what was left of it (x.half,
\* and sticky for what was left before) is more than half, or half with x.q odd.
RoundQuotient(neg, x, sticky, lsb) ==
    Finite(neg, RoundHalfEven(x.q, IF x.half = 0 /\ sticky THEN 1 ELSE x.half), lsb)

\* The same for the quotient of cut.q by 10^k.
RoundDivided(neg, cut, k, lsb) ==
    RoundQuotient(neg, DivPowerOfTen(cut.q, k), cut.sticky, lsb)

\* The double nearest to n / 10^k whose last bit is at 2^lsb.
RoundDecimalToBit(neg, n, k, lsb) ==
    RoundDivided(neg,
                 IF lsb > 0 THEN ShiftRight(n, lsb)
                 ELSE [q |-> IF lsb < 0 THEN ShiftLeft(n, 0 - lsb) ELSE n, sticky |-> FALSE],
                 k, lsb)

\* The double nearest to n / 10^k (n not zero, k > 0), the one with the even
\* sig on a tie.
RoundDecimal(neg, n, k) ==
    RoundDecimalToBit(neg, n, k, LastBit(FirstBit(n, BigPowerOfTen(k)) + 1))

(***************************************************************************)
(* float(text).                                                            *)
(***************************************************************************)
\* The code points of the digit zero of each run of ten decimal digits
\* (Unicode 14, as in Python 3.11).
DecimalZeros ==
    {48, 1632, 1776, 1984, 2406, 2534, 2662, 2790, 2918, 3046, 3174, 3302, 3430,
     3558, 3664, 3792, 3872, 4160, 4240, 6112, 6160, 6470, 6608, 6784, 6800, 6992,
     7088, 7232, 7248, 42528, 43216, 43264, 43472, 43504, 43600, 44016, 65296,
     66720, 68912, 69734, 69872, 69942, 70096, 70384, 70736, 70864, 71248, 71360,
     71472, 71904, 72016, 72784, 73040, 73120, 92768, 92864, 93008, 120782, 120792,
     120802, 120812, 120822, 123200, 123632, 125264, 130032}

IsDecimal(c) == \E z \in DecimalZeros : c \in z..(z + 9)

DecimalValue(c) == c - (CHOOSE z \in DecimalZeros : c \in z..(z + 9))

\* Characters above 127 become a blank (whitespace), an ASCII digit (decimal
\* digits) or "?" (anything else); ASCII characters are kept.
ToASCII(text) ==
    [i \in 1..Len(text) |->
        IF text[i] < 128 THEN text[i]
        ELSE IF IsSpace(text[i]) THEN 32
        ELSE IF IsDecimal(text[i]) THEN 48 + DecimalValue(text[i])
        ELSE 63]

\* The whitespace float() skips around the number, once in ASCII.
AsciiSpace == (9..13) \cup {32}

IsDigit(c) == c \in 48..57

\* An underscore (95) must stand between two digits.
UnderscoresOk(s) ==
    \A i \in 1..Len(s) :
        s[i] = 95 => i > 1 /\ i < Len(s) /\ IsDigit(s[i - 1]) /\ IsDigit(s[i + 1])

NotUnderscore(c) == c # 95

Lower(s) == [i \in 1..Len(s) |-> IF s[i] \in 65..90 THEN s[i] + 32 ELSE s[i]]

RECURSIVE DigitsValue(_)
\* The value of a run of digits, held at 99999.
DigitsValue(s) ==
    IF s = <<>> THEN 0
    ELSE IF Len(lstrip(s, {48})) > 5 THEN 99999
    ELSE 10 * DigitsValue(Front(lstrip(s, {48}))) + (Last(s) - 48)

\* The number of any size a run of digits denotes.
BigOfDigits(s) ==
    LET padded == [i \in 1..((4 - (Len(s) % 4)) % 4) |-> 48] \o s
    IN  NoLeadingZeros([i \in 1..(Len(padded) \div 4) |->
                           DigitsValue(SubSeq(padded, 4 * i - 3, 4 * i))])

\* n * 10^k
TimesPowerOfTen(n, k) ==
    IF n = <<>> THEN n ELSE BigTimes(n, PowersOfTen[k % 4]) \o [i \in 1..(k \div 4) |-> 0]

AllDigits(s) == \A i \in 1..Len(s) : IsDigit(s[i])

\* [sign] digits, at least one digit.
SignChars == {43, 45}

Unsigned(s) == IF s # <<>> /\ s[1] \in SignChars THEN Tail(s) ELSE s

IsExponent(s) == Unsigned(s) # <<>> /\ AllDigits(Unsigned(s))

SignedExponent(s) ==
    IF s = <<>> THEN 0
    ELSE IF s[1] = 45 THEN 0 - DigitsValue(Tail(s))
    ELSE DigitsValue(Unsigned(s))

\* digits [. digits], or . digits: at most one point (46), at least one digit.
IsMantissa(s) ==
    /\ \A i \in 1..Len(s) : IsDigit(s[i]) \/ s[i] = 46
    /\ Cardinality({i \in 1..Len(s) : s[i] = 46}) <= 1
    /\ \E i \in 1..Len(s) : IsDigit(s[i])

\* The number of digits after the point of a mantissa.
FractionLen(s) ==
    IF \E i \in 1..Len(s) : s[i] = 46
    THEN Len(s) - (CHOOSE i \in 1..Len(s) : s[i] = 46)
    ELSE 0

\* The double nearest to sig * 10^e, for digits sig that neither start nor
\* end with a zero.  A number of 310 digits or more before the point is beyond
\* the doubles, one that starts 330 places or more after the point is nearer to
\* zero than to any other double.
NearestFloat(neg, sig, e) ==
    IF sig = <<>> THEN Zero(neg)
    ELSE IF Len(sig) + e > 310 THEN Infinity(neg)
    ELSE IF Len(sig) + e < 0 - 330 THEN Zero(neg)
    ELSE IF e >= 0 THEN RoundDyadic(neg, TimesPowerOfTen(BigOfDigits(sig), e), 0)
    ELSE RoundDecimal(neg, BigOfDigits(sig), 0 - e)

\* The double nearest to digits * 10^exp10.
DecimalFloat(neg, digits, exp10) ==
    NearestFloat(neg, rstrip(lstrip(digits, {48}), {48}),
                 exp10 + (Len(digits) - Len(rstrip(digits, {48}))))

\* What float() gives for a text it does not accept.
NotAFloat == [ok |-> FALSE, value |-> NaN]

\* The float of a mantissa with its exponent (marked: an "e" stood between).
FloatOfParts(neg, mantissa, exponent, marked) ==
    IF ~IsMantissa(mantissa) \/ (marked /\ ~IsExponent(exponent)) THEN NotAFloat
    ELSE [ok |-> TRUE,
          value |-> DecimalFloat(neg, SelectSeq(mantissa, IsDigit),
                                 SignedExponent(exponent) - FractionLen(mantissa))]

\* The float of a decimal number whose first "e" or "E" (101, 69), if any, is
\* at mark.
FloatOfDecimal(neg, body, mark) ==
    FloatOfParts(neg, SubSeq(body, 1, mark - 1), SubSeq(body, mark + 1, Len(body)),
                 mark <= Len(body))

\* The float of a text without its sign.
FloatOfBody(neg, body) ==
    IF Lower(body) \in {<<105, 110, 102>>, <<105, 110, 102, 105, 110, 105, 116, 121>>}
    THEN [ok |-> TRUE, value |-> Infinity(neg)]
    ELSE IF Lower(body) = <<110, 97, 110>>
    THEN [ok |-> TRUE, value |-> NaN]
    ELSE FloatOfDecimal(neg, body,
                        IF \E i \in 1..Len(body) : body[i] \in {69, 101}
                        THEN CHOOSE i \in 1..Len(body) :
                                 /\ body[i] \in {69, 101}
                                 /\ \A j \in 1..(i - 1) : body[j] \notin {69, 101}
                        ELSE Len(body) + 1)

\* The float of a text in ASCII without the whitespace around it.
FloatOfStripped(stripped, s) ==
    IF ~UnderscoresOk(stripped) THEN NotAFloat
    ELSE FloatOfBody(s # <<>> /\ s[1] = 45, Unsigned(s))

\* float(text): characters above 127 are brought to ASCII, surrounding
\* whitespace is skipped, underscores between digits are dropped; what is left
\* must be [sign] followed by inf, infinity or nan in any case, or by a decimal
\* number with an optional exponent.  Anything else raises ValueError.
FloatOfAscii(stripped) == FloatOfStripped(stripped, SelectSeq(stripped, NotUnderscore))

float(text) == FloatOfAscii(rstrip(lstrip(ToASCII(text), AsciiSpace), AsciiSpace))

(***************************************************************************)
(* a + b on floats.                                                        *)
(***************************************************************************)
\* x * 2^e bearing the sign of a, less y * 2^e, for x and y in the given
\* order: a difference that is zero is +0.0.
SubAligned(aneg, bneg, x, y, e, order) ==
    IF order = 0 THEN Zero(FALSE)
    ELSE RoundDyadic(IF order > 0 THEN aneg ELSE bneg,
                     IF order > 0 THEN BigSub(x, y) ELSE BigSub(y, x), e)

\* The double nearest to the sum of x * 2^e and y * 2^e with their signs.
AddAligned(aneg, bneg, x, y, e) ==
    IF aneg = bneg THEN RoundDyadic(aneg, BigAdd(x, y), e)
    ELSE SubAligned(aneg, bneg, x, y, e, BigCompare(x, y))

\* The sum of two finite floats: the double nearest to the sum of the two
\* numbers: the other operand when one is zero.  A sum that is zero is +0.0
\* unless both operands are -0.0.
AddFinite(a, b) ==
    IF a.sig = <<>> /\ b.sig # <<>> THEN b
    ELSE IF b.sig = <<>> /\ a.sig # <<>> THEN a
    ELSE AddAligned(a.neg, b.neg, ShiftLeft(a.sig, a.exp - Min(a.exp, b.exp)),
                    ShiftLeft(b.sig, b.exp - Min(a.exp, b.exp)), Min(a.exp, b.exp))

Add(a, b) ==
    IF a.class = "nan" \/ b.class = "nan" THEN NaN
    ELSE IF a.class = "inf"
    THEN IF b.class = "inf" /\ a.neg # b.neg THEN NaN ELSE a
    ELSE IF b.class = "inf" THEN b
    ELSE AddFinite(a, b)

(***************************************************************************)
(* f"₹{amount:.2f}".                                                       *)
(***************************************************************************)
\* The decimal digits of a number.
BigText(n) ==
    lstrip([i \in 1..(4 * Len(n)) |->
               48 + ((n[(i + 3) \div 4] \div PowersOfTen[3 - ((i - 1) % 4)]) % 10)], {48})

\* The hundredths of a finite float, rounded to the nearest whole number of
\* hundredths and to the even one on a tie.
Hundredths(v) ==
    IF v.exp >= 0 THEN BigTimes(ShiftLeft(v.sig, v.exp), 100)
    ELSE RoundShift(BigTimes(v.sig, 100), 0 - v.exp)

\* Digits of three places at least (zeros in front), a point before the last
\* two.
TwoPlaces(padded) ==
    SubSeq(padded, 1, Len(padded) - 2) \o <<46>>
        \o SubSeq(padded, Len(padded) - 1, Len(padded))

\* A number of hundredths in digits as units with two decimal places.
FixedPoint(digits) == TwoPlaces([i \in 1..(3 - Len(digits)) |-> 48] \o digits)

FormatAmount(amount) ==
    <<8377>> \o
    (IF amount.class = "nan" THEN <<110, 97, 110>>
     ELSE (IF amount.neg THEN <<45>> ELSE <<>>) \o
          (IF amount.class = "inf" THEN <<105, 110, 102>>
           ELSE FixedPoint(BigText(Hundredths(amount)))))


(***************************************************************************)
(* Dates and times of the labels.                                          *)
(***************************************************************************)
Pad2(n) == IF n < 10 THEN "0" \o ToString(n) ELSE ToString(n)

\* QDate.currentDate().toString("dd/MM/yyyy")
FormatDate(t) == Pad2(t.day) \o "/" \o Pad2(t.month) \o "/" \o ToString(t.year)

\* QDateTime.currentDateTime().toString("HH:mm:ss")
FormatTime(t) == Pad2(t.hour) \o ":" \o Pad2(t.minute) \o ":" \o Pad2(t.second)

(***************************************************************************)
(* Values shown, written and raised.                                       *)
(***************************************************************************)
NoBox == <<>>
CustomWarning ==
    <<"warning", "Input Error", "Please specify a custom category for 'Others'.">>
AmountWarning  == <<"warning", "Input Error", "Please enter a valid amount.">>
NoSaveWarning  == <<"warning", "No Data", "No expenses to save.">>
SavedBox       == <<"information", "Success", "Data saved as Excel successfully!">>
NoReportWarning == <<"warning", "No Data", "No expenses to generate a report.">>

NoExport == [asked |-> FALSE, path |-> "", written |-> FALSE, columns |-> <<>>, rows |-> <<>>]
NoFigure == [shown |-> FALSE, labels |-> <<>>, sizes |-> <<>>, title |-> ""]
NoException == "none"

NoEvent == [slot |-> "none", amount_input |-> <<>>, currentText |-> <<>>,
            custom_category_input |-> <<>>]

(***************************************************************************)
(* toggle_custom_category: the custom field is shown only while "Others"   *)
(* is the current item; on any other item it is hidden and cleared, so its *)
(* text at a click is what the user typed only under "Others".             *)
(***************************************************************************)
toggle_custom_category(category, text) == IF category = Others THEN text ELSE <<>>

(***************************************************************************)
(* add_expense, as functions of the form and of the state it reads.        *)
(***************************************************************************)
\* Variant of AddItem that never extends the drop-down.
AddItemNever(items, custom) == items

\* Variant of AddItem that adds without looking for the name among the items.
AddItemAlways(items, custom) == Append(items, custom)

\* The drop-down after "add custom category if not already present".
AddItem(items, custom) ==
    IF custom \notin Range(items) THEN Append(items, custom) ELSE items

\* Variant of add_expense_result that leaves "Others" as the record's category.
add_expense_keep_others(form, items) ==
    LET amount == float(form.amount_input)
        category == form.currentText
        custom_category == strip(form.custom_category_input)
    IN  IF ~amount.ok
        THEN [outcome |-> "ValueError", box |-> AmountWarning,
              amount |-> NaN, category |-> <<>>, items |-> items]
        ELSE IF category = Others /\ custom_category = <<>>
        THEN [outcome |-> "return", box |-> CustomWarning,
              amount |-> NaN, category |-> <<>>, items |-> items]
        ELSE [outcome |-> "added", box |-> NoBox,
              amount |-> amount.value, category |-> category,
              items |-> IF category = Others
                        THEN AddItem(items, custom_category) ELSE items]

\* Variant of add_expense_result that extends the drop-down before it parses
\* the amount.
add_expense_items_first(form, items) ==
    LET amount == float(form.amount_input)
        category == form.currentText
        custom_category == strip(form.custom_category_input)
        extended == IF category = Others /\ custom_category # <<>>
                    THEN AddItem(items, custom_category) ELSE items
    IN  IF ~amount.ok
        THEN [outcome |-> "ValueError", box |-> AmountWarning,
              amount |-> NaN, category |-> <<>>, items |-> extended]
        ELSE IF category = Others /\ custom_category = <<>>
        THEN [outcome |-> "return", box |-> CustomWarning,
              amount |-> NaN, category |-> <<>>, items |-> items]
        ELSE [outcome |-> "added", box |-> NoBox, amount |-> amount.value,
              category |-> IF category = Others THEN custom_category ELSE category,
              items |-> extended]

\* Variant of add_expense_result that refuses an amount that is not above zero.
add_expense_positive_only(form, items) ==
    LET amount == float(form.amount_input)
        category == form.currentText
        custom_category == strip(form.custom_category_input)
    IN  IF ~amount.ok \/ amount.value.class = "nan" \/ amount.value.neg
           \/ (amount.value.class = "finite" /\ amount.value.sig = <<>>)
        THEN [outcome |-> "ValueError", box |-> AmountWarning,
              amount |-> NaN, category |-> <<>>, items |-> items]
        ELSE IF category = Others
        THEN IF custom_category = <<>>
             THEN [outcome |-> "return", box |-> CustomWarning,
                   amount |-> NaN, category |-> <<>>, items |-> items]
             ELSE [outcome |-> "added", box |-> NoBox,
                   amount |-> amount.value, category |-> custom_category,
                   items |-> AddItem(items, custom_category)]
        ELSE [outcome |-> "added", box |-> NoBox,
              amount |-> amount.value, category |-> category, items |-> items]

\* The try block up to the point where the record is built: the amount is
\* parsed first (ValueError leaves everything as it was), then "Others" is
\* replaced by the trimmed custom text, which must not be empty.
add_expense_result(form, items) ==
    LET amount == float(form.amount_input)
        category == form.currentText
        custom_category == strip(form.custom_category_input)
    IN  IF ~amount.ok
        THEN [outcome |-> "ValueError", box |-> AmountWarning,
              amount |-> NaN, category |-> <<>>, items |-> items]
        ELSE IF category = Others
        THEN IF custom_category = <<>>
             THEN [outcome |-> "return", box |-> CustomWarning,
                   amount |-> NaN, category |-> <<>>, items |-> items]
             ELSE [outcome |-> "added", box |-> NoBox,
                   amount |-> amount.value, category |-> custom_category,
                   items |-> AddItem(items, custom_category)]
        ELSE [outcome |-> "added", box |-> NoBox,
              amount |-> amount.value, category |-> category, items |-> items]

\* The dict appended to self.expenses.
NewExpense(amount, category, date, time) ==
    [amount |-> amount, category |-> category, date |-> date, time |-> time]

\* Variant of AppendExpense that puts the new expense first.
PrependExpense(list, expense) == <<expense>> \o list

\* self.expenses.append(...)
AppendExpense(list, expense) == Append(list, expense)

\* The four cells of the table row inserted for an expense.
TableRow(expense) ==
    <<FormatAmount(expense.amount), expense.category, expense.date, expense.time>>

(***************************************************************************)
(* save_as_excel: up to the file dialog, as a function of the expenses,    *)
(* and from the dialog's answer on, as a function of the expenses and of   *)
(* the answer.                                                             *)
(***************************************************************************)
Writable(path) == path = WritablePath

\* pd.DataFrame(self.expenses): a column per key, a row per dict.
DataFrame(list) ==
    [columns |-> <<"amount", "category", "date", "time">>,
     rows |-> [i \in 1..Len(list) |->
                 <<list[i].amount, list[i].category, list[i].date, list[i].time>>]]

\* Variant of save_as_excel_result without the check for an empty list.
save_as_excel_unchecked(list) ==
    [box |-> NoBox, export |-> [NoExport EXCEPT !.asked = TRUE]]

\* The handler up to the call of QFileDialog.getSaveFileName: the warning, or
\* the dialog.
save_as_excel_result(list) ==
    IF list = <<>>
    THEN [box |-> NoSaveWarning, export |-> NoExport]
    ELSE [box |-> NoBox, export |-> [NoExport EXCEPT !.asked = TRUE]]

\* The handler once the dialog has answered file_path.
to_excel_result(list, file_path) ==
    IF file_path = ""
    THEN [box |-> NoBox, exception |-> NoException,
          export |-> [NoExport EXCEPT !.asked = TRUE]]
    ELSE IF Writable(file_path)
    THEN [box |-> SavedBox, exception |-> NoException,
          export |-> [asked |-> TRUE, path |-> file_path, written |-> TRUE,
                      columns |-> DataFrame(list).columns,
                      rows |-> DataFrame(list).rows]]
    ELSE \* to_excel raises OSError; nothing in the handler catches it
         [box |-> NoBox, exception |-> "OSError",
          export |-> [NoExport EXCEPT !.asked = TRUE, !.path = file_path]]

(***************************************************************************)
(* generate_report.  A dict is a sequence of <<key, value>> pairs in       *)
(* insertion order.                                                        *)
(***************************************************************************)
DictKeys(d)   == [i \in 1..Len(d) |-> d[i][1]]
DictValues(d) == [i \in 1..Len(d) |-> d[i][2]]

\* d.get(key, default)
DictGet(d, key, default) ==
    IF \E i \in 1..Len(d) : d[i][1] = key
    THEN d[CHOOSE i \in 1..Len(d) : d[i][1] = key][2]
    ELSE default

\* d[key] = value
DictSet(d, key, value) ==
    IF \E i \in 1..Len(d) : d[i][1] = key
    THEN [i \in 1..Len(d) |-> IF d[i][1] = key THEN <<key, value>> ELSE d[i]]
    ELSE Append(d, <<key, value>>)

\* Variant of Accumulate that stores the amount instead of adding it.
AccumulateOverwrite(categories, expense) ==
    DictSet(categories, expense.category, expense.amount)

\* One pass of the loop body over an expense.  The default 0 is an int, which
\* the addition takes as the float 0.0.
Accumulate(categories, expense) ==
    DictSet(categories, expense.category,
            Add(DictGet(categories, expense.category, Zero(FALSE)), expense.amount))

RECURSIVE CategoryTotals(_)
\* The categories dict after the loop over the expenses.
CategoryTotals(list) ==
    IF list = <<>> THEN <<>>
    ELSE Accumulate(CategoryTotals(Front(list)), Last(list))

\* The sig of a double of 2^127 or more from which the nearest single is an
\* infinity: (2^25 - 1) * 2^103, as a multiple of 2^75.
SingleOverflow == ShiftLeft(BigSub(ShiftLeft(<<1>>, 25), <<1>>), 28)

\* np.asarray(x, np.float32) of one double: what kind of single it becomes.
\* Its sign is that of the double.
SingleClass(v) ==
    LET top == BitLength(v.sig) + v.exp
    IN  IF v.class # "finite" THEN v.class
        ELSE IF v.sig = <<>> THEN "zero"
        ELSE IF top > 128 \/ (top = 128 /\ BigCompare(v.sig, SingleOverflow) >= 0)
        THEN "inf"
        ELSE IF top < 0 - 149 \/ (top = 0 - 149 /\ v.sig = <<1>>) THEN "zero"
        ELSE "finite"

\* plt.pie(x, ...): what may come of it.  A negative wedge size raises
\* ValueError.  Sizes that are all zero, or of which one is infinite or not a
\* number, have fractions that are not numbers: the chart is drawn without
\* wedges or ValueError is raised, depending on the matplotlib release.
pie(x) ==
    LET single == [i \in 1..Len(x) |-> SingleClass(x[i])]
    IN  IF \E i \in 1..Len(x) : x[i].neg /\ single[i] \in {"finite", "inf"}
        THEN {"ValueError"}
        ELSE IF \/ \E i \in 1..Len(x) : single[i] \in {"nan", "inf"}
                \/ \A i \in 1..Len(x) : single[i] = "zero"
        THEN {"shown", "ValueError"}
        ELSE {"shown"}

\* What the handler may do: the warning, the chart, or an exception of plt.pie
\* that nothing in the handler catches.
generate_report_result(list) ==
    LET categories == CategoryTotals(list)
        y == DictKeys(categories)
        x == DictValues(categories)
    IN  IF categories = <<>>
        THEN {[box |-> NoReportWarning, figure |-> NoFigure, exception |-> NoException]}
        ELSE {IF outcome = "ValueError"
              THEN [box |-> NoBox, figure |-> NoFigure, exception |-> "ValueError"]
              ELSE [box |-> NoBox, exception |-> NoException,
                    figure |-> [shown |-> TRUE, labels |-> y, sizes |-> x,
                                title |-> "Expense Distribution"]] :
              outcome \in pie(x)}

(***************************************************************************)
(* The state after construction.                                           *)
(***************************************************************************)
Init ==
    /\ expenses = <<>>
    /\ table = <<>>
    /\ category_input = PresetItems
    /\ now = 1
    /\ date_input = FormatDate(Timeline[1])
    /\ time_input = FormatTime(Timeline[1])
    /\ event = NoEvent
    /\ pc = "idle"
    /\ messagebox = NoBox
    /\ export = NoExport
    /\ figure = NoFigure
    /\ uncaught = NoException
    /\ running = TRUE

(***************************************************************************)
(* The user.  A click is dispatched to its handler before anything else    *)
(* runs on the UI thread; what the previous handler showed has been        *)
(* dismissed by then.  pc is "idle" (the event loop waits), "pending" (a    *)
(* click is dispatched, its handler has not run), "dialog" (save_as_excel  *)
(* waits in the file dialog) or "box" (a handler waits in a message box).  *)
(* The dialog and the boxes are modal: they run the event loop, in which   *)
(* the timer goes on firing, and take the clicks.                          *)
(***************************************************************************)
Idle == running /\ pc = "idle"

Click(e) ==
    /\ event' = e
    /\ pc' = "pending"
    /\ messagebox' = NoBox
    /\ export' = NoExport
    /\ figure' = NoFigure
    /\ uncaught' = NoException
    /\ UNCHANGED <<expenses, table, category_input, date_input, time_input, now, running>>

\* The items the user picks: some presets and every item added at run time.
Picked == {c \in Range(category_input) : c \in PickedPresets \/ c \notin Range(PresetItems)}

ClickAdd ==
    /\ Idle
    /\ Len(expenses) < MaxRecords
    /\ \E a \in AmountTexts, c \in Picked, t \in CustomTexts :
          Click([slot |-> "add_expense", amount_input |-> a, currentText |-> c,
                 custom_category_input |-> toggle_custom_category(c, t)])

ClickSave == Idle /\ Click([NoEvent EXCEPT !.slot = "save_as_excel"])

ClickReport == Idle /\ Click([NoEvent EXCEPT !.slot = "generate_report"])

(***************************************************************************)
(* The handlers.                                                           *)
(***************************************************************************)
Pending(slot) == running /\ pc = "pending" /\ event.slot = slot

\* Where a handler stands after a step that showed box: in the message box, or
\* back in the event loop.
After(box) == IF box # NoBox THEN "box" ELSE "idle"

\* An exception that leaves a slot is printed and the event loop goes on, or
\* the binding aborts the process: which one depends on the PyQt5 release.
Escapes(exception) ==
    /\ uncaught' = exception
    /\ IF exception = NoException THEN running' = TRUE ELSE running' \in BOOLEAN

add_expense ==
    /\ Pending("add_expense")
    /\ LET r == add_expense_result(event, category_input)
           expense == NewExpense(r.amount, r.category, date_input, time_input)
       IN  /\ category_input' = r.items
           /\ messagebox' = r.box
           /\ pc' = After(r.box)
           /\ IF r.outcome = "added"
              THEN /\ expenses' = AppendExpense(expenses, expense)
                   /\ table' = Append(table, TableRow(expense))
              ELSE UNCHANGED <<expenses, table>>
    /\ UNCHANGED <<date_input, time_input, now, event, export, figure, uncaught, running>>

\* Lines 143 to 147: the warning, or the file dialog opens.
save_as_excel ==
    /\ Pending("save_as_excel")
    /\ LET r == save_as_excel_result(expenses)
       IN  /\ messagebox' = r.box
           /\ export' = r.export
           /\ pc' = IF r.export.asked THEN "dialog" ELSE After(r.box)
    /\ UNCHANGED <<expenses, table, category_input, date_input, time_input, now, event,
                   figure, uncaught, running>>

\* Lines 147 to 151: the file dialog answers and the handler goes on.
getSaveFileName ==
    /\ running
    /\ pc = "dialog"
    /\ \E file_path \in DialogAnswers :
          LET r == to_excel_result(expenses, file_path)
          IN  /\ messagebox' = r.box
              /\ export' = r.export
              /\ pc' = After(r.box)
              /\ Escapes(r.exception)
    /\ UNCHANGED <<expenses, table, category_input, date_input, time_input, now, event, figure>>

\* plt.show() runs the event loop itself and the chart window is not modal:
\* once the chart is shown, clicks are taken as in the main loop.
generate_report ==
    /\ Pending("generate_report")
    /\ \E r \in generate_report_result(expenses) :
          /\ messagebox' = r.box
          /\ figure' = r.figure
          /\ pc' = After(r.box)
          /\ Escapes(r.exception)
    /\ UNCHANGED <<expenses, table, category_input, date_input, time_input, now, event, export>>

\* The user closes the message box; the handler that showed it returns.
Dismiss ==
    /\ running
    /\ pc = "box"
    /\ pc' = "idle"
    /\ UNCHANGED <<expenses, table, category_input, date_input, time_input, now, event,
                   messagebox, export, figure, uncaught, running>>

\* The timer's slot: the time label is set to the current time.  It runs from
\* the event loop, that of a modal dialog or box included.
update_time ==
    /\ running
    /\ pc \in {"idle", "dialog", "box"}
    /\ time_input' = FormatTime(Timeline[now])
    /\ UNCHANGED <<expenses, table, category_input, date_input, now, event, pc,
                   messagebox, export, figure, uncaught, running>>

\* The wall clock moves on to the next instant.
ClockAdvance ==
    /\ running
    /\ now < Len(Timeline)
    /\ now' = now + 1
    /\ UNCHANGED <<expenses, table, category_input, date_input, time_input, event, pc,
                   messagebox, export, figure, uncaught, running>>

Next ==
    \/ ClickAdd
    \/ ClickSave
    \/ ClickReport
    \/ add_expense
    \/ save_as_excel
    \/ getSaveFileName
    \/ generate_report
    \/ Dismiss
    \/ update_time
    \/ ClockAdvance

Spec == Init /\ [][Next]_vars

(***************************************************************************)
(* Vocabulary of the properties.                                           *)
(***************************************************************************)
Gym == <<71, 121, 109>>

\* The doubles nearest to 0.1 and to 7.1, the doubles 7 and -3.
Tenth      == [class |-> "finite", neg |-> FALSE, sig |-> <<3602, 8797, 189, 6397>>, exp |-> 0 - 55]
SevenTenth == [class |-> "finite", neg |-> FALSE, sig |-> <<3996, 9446, 6929, 1315>>, exp |-> 0 - 49]
Seven      == [class |-> "finite", neg |-> FALSE, sig |-> <<7>>, exp |-> 0]
MinusThree == [class |-> "finite", neg |-> TRUE, sig |-> <<3>>, exp |-> 0]

\* The number each amount text of AmountTexts denotes, as a double; the other
\* texts of AmountTexts denote no number.
NumberTyped ==
    (<<48, 46, 49>> :> Tenth) @@ (<<160, 55, 9>> :> Seven) @@ (<<45, 51>> :> MinusThree)

\* A float is above zero.
Positive(v) ==
    v.class # "nan" /\ ~v.neg /\ (v.class = "inf" \/ v.sig # <<>>)

\* A text without its leading and trailing whitespace: what lies between its
\* first and its last character that is not whitespace.
Trimmed(t) ==
    LET solid == {i \in 1..Len(t) : ~IsSpace(t[i])}
    IN  IF solid = {} THEN <<>>
        ELSE SubSeq(t, CHOOSE i \in solid : \A j \in solid : i <= j,
                       CHOOSE i \in solid : \A j \in solid : j <= i)

IsNumber(e)    == e.amount_input \in DOMAIN NumberTyped
CategoryOk(e)  == e.currentText # Others \/ Trimmed(e.custom_category_input) # <<>>
Accepted(e)    == IsNumber(e) /\ CategoryOk(e)
Rejected(e)    == ~IsNumber(e) \/ ~CategoryOk(e)
Effective(e)   ==
    IF e.currentText = Others THEN Trimmed(e.custom_category_input) ELSE e.currentText

\* A step in which the handler of a pending click starts: it runs up to its
\* end, or up to the modal dialog or box it opens.
HandlerStep(slot) == pc = "pending" /\ event.slot = slot /\ pc' # "pending"
\* The handler of the last click is under way.
InHandler(slot) == pc # "idle" /\ event.slot = slot
\* The handler of the last click has ended.
Handled(slot) == pc = "idle" /\ event.slot = slot

IsPrefix(s, t) == Len(s) <= Len(t) /\ SubSeq(t, 1, Len(s)) = s

NoDuplicates(s) == \A i, j \in 1..Len(s) : s[i] = s[j] => i = j

RECURSIVE AmountsOf(_, _)
\* The amounts of the expenses of a category, in the order of the list.
AmountsOf(list, category) ==
    IF list = <<>> THEN <<>>
    ELSE AmountsOf(Front(list), category)
         \o (IF Last(list).category = category THEN <<Last(list).amount>> ELSE <<>>)

AllAmounts(list) == [i \in 1..Len(list) |-> list[i].amount]

RECURSIVE FloatSum(_)
\* The sum of a sequence of floats taken from the left, each partial sum
\* rounded to a double, starting from zero.
FloatSum(s) == IF s = <<>> THEN Zero(FALSE) ELSE Add(FloatSum(Front(s)), Last(s))

\* The number n * 2^e with its sign, n odd; zero has no sign.
Real(neg, n, e) ==
    IF n = <<>> THEN [neg |-> FALSE, sig |-> <<>>, exp |-> 0]
    ELSE [neg |-> neg, sig |-> ShiftRight(n, TrailingZeroBits(n)).q,
          exp |-> e + TrailingZeroBits(n)]

\* The number a finite float stands for.
RealOf(v) == Real(v.neg, v.sig, v.exp)

\* The sum of two numbers, not rounded.
RealAdd(a, b) ==
    LET e     == IF a.exp <= b.exp THEN a.exp ELSE b.exp
        x     == ShiftLeft(a.sig, a.exp - e)
        y     == ShiftLeft(b.sig, b.exp - e)
    IN  IF a.neg = b.neg THEN Real(a.neg, BigAdd(x, y), e)
        ELSE IF BigCompare(x, y) >= 0 THEN Real(a.neg, BigSub(x, y), e)
        ELSE Real(b.neg, BigSub(y, x), e)

RECURSIVE RealSum(_)
\* The sum of the numbers a sequence of finite floats stands for, not rounded.
RealSum(s) ==
    IF s = <<>> THEN Real(FALSE, <<>>, 0) ELSE RealAdd(RealSum(Front(s)), RealOf(Last(s)))

RECURSIVE BigSum(_)
BigSum(s) == IF s = <<>> THEN <<>> ELSE BigAdd(BigSum(Front(s)), Last(s))

\* Every amount is a whole number, and their magnitudes add up to less than
\* 2^53: every sum of some of them is a double.
WholeAmounts(list) ==
    /\ \A i \in 1..Len(list) : list[i].amount.class = "finite" /\ list[i].amount.exp = 0
    /\ BitLength(BigSum([i \in 1..Len(list) |-> list[i].amount.sig])) <= 53

\* Each total is the sum of the amounts of its category, and the totals add up
\* to the sum of all amounts; nothing is rounded.
ExactSums(list, categories) ==
    /\ \A i \in 1..Len(categories) :
          RealOf(categories[i][2]) = RealSum(AmountsOf(list, categories[i][1]))
    /\ RealSum(DictValues(categories)) = RealSum(AllAmounts(list))

\* Each total is the sum of the amounts of its category as floats add up, in
\* the order of the list.
FloatTotals(list, categories) ==
    \A i \in 1..Len(categories) :
        categories[i][2] = FloatSum(AmountsOf(list, categories[i][1]))

\* The last click is on Generate Report.
Reporting == event.slot = "generate_report"

(***************************************************************************)
(* C1.  An accepted Add (the amount text is a number; the category is a    *)
(* preset other than Others, or Others with custom text that is not empty  *)
(* once trimmed) makes the list one longer, keeps what was there, and the  *)
(* last expense carries the entered amount and the effective category.     *)
(***************************************************************************)
C1_AcceptedAddAppends ==
    [][ (HandlerStep("add_expense") /\ Accepted(event)) =>
          /\ Len(expenses') = Len(expenses) + 1
          /\ SubSeq(expenses', 1, Len(expenses)) = expenses
          /\ Last(expenses').amount = NumberTyped[event.amount_input]
          /\ Last(expenses').category = Effective(event) ]_vars

C1_Witness ==
    /\ Handled("add_expense")
    /\ event.amount_input = <<160, 55, 9>>
    /\ event.currentText = Others
    /\ Effective(event) = Gym
    /\ Len(expenses) = 2
    /\ expenses[1].amount = Tenth
    /\ Last(expenses).amount = Seven
    /\ Last(expenses).category = Gym
    /\ Last(table)[1] = <<8377, 55, 46, 48, 48>>

(***************************************************************************)
(* C2.  The list of expenses is append-only: in every step the old list is *)
(* a prefix of the new one, and every step that is not the Add handler     *)
(* (Save-as-Excel, Generate-Report, the timer tick, a click, a dialog or   *)
(* box that closes, the clock) leaves it exactly as it was.                *)
(***************************************************************************)
C2_AppendOnly ==
    [][ /\ IsPrefix(expenses, expenses')
        /\ (~HandlerStep("add_expense") => expenses' = expenses) ]_vars

C2_Witness ==
    /\ Handled("save_as_excel")
    /\ export.written
    /\ messagebox = SavedBox
    /\ Len(expenses) = 2
    /\ expenses[1] # expenses[2]
    /\ export.rows[2][1] = expenses[2].amount
    /\ time_input # expenses[2].time

(***************************************************************************)
(* C3.  A rejected Add (the amount text is no number, or Others with       *)
(* custom text that is empty once trimmed) leaves the expenses, the table  *)
(* and the drop-down items unchanged, from the click until its warning is  *)
(* closed, also when the amount is no number while Others is selected with *)
(* a new custom name.                                                      *)
(***************************************************************************)
C3_RejectedAddChangesNothing ==
    [][ /\ (InHandler("add_expense") /\ Rejected(event)) =>
              /\ expenses' = expenses
              /\ table' = table
              /\ category_input' = category_input
        /\ (HandlerStep("add_expense") /\ Rejected(event)) =>
              messagebox' \in {AmountWarning, CustomWarning} ]_vars

C3_Witness ==
    /\ Handled("add_expense")
    /\ event.amount_input = <<49, 120>>
    /\ event.currentText = Others
    /\ Effective(event) = Gym
    /\ Gym \notin Range(category_input)
    /\ messagebox = AmountWarning
    /\ Len(expenses) = 1

(***************************************************************************)
(* C4.  An accepted Add with Others and custom text c (trimmed, not empty) *)
(* creates an expense of category c and c is an item of the drop-down      *)
(* afterwards; the drop-down only ever grows at its end, so c stays an     *)
(* item in every later state.                                              *)
(***************************************************************************)
C4_CustomCategoryKept ==
    [][ /\ (HandlerStep("add_expense") /\ Accepted(event) /\ event.currentText = Others) =>
              /\ Last(expenses').category = Trimmed(event.custom_category_input)
              /\ Trimmed(event.custom_category_input) \in Range(category_input')
        /\ IsPrefix(category_input, category_input') ]_vars

\* The custom name has been added and later picked from the drop-down.
C4_Witness ==
    /\ Handled("add_expense")
    /\ event.currentText = Gym
    /\ Gym \in Range(category_input)
    /\ Len(expenses) = 2
    /\ expenses[1].category = Gym
    /\ expenses[2].category = Gym

(***************************************************************************)
(* C5.  As claimed: every expense has an amount greater than zero.         *)
(***************************************************************************)
C5_AmountsPositive == \A i \in 1..Len(expenses) : Positive(expenses[i].amount)

(***************************************************************************)
(* C5, amended.  An Add whose amount text denotes zero or a negative       *)
(* number passes validation like any other number: with an acceptable      *)
(* category it appends an expense carrying that amount.                    *)
(***************************************************************************)
C5_NonPositiveAmountAccepted ==
    [][ (/\ HandlerStep("add_expense")
         /\ Accepted(event)
         /\ ~Positive(NumberTyped[event.amount_input])) =>
          /\ Len(expenses') = Len(expenses) + 1
          /\ Last(expenses').amount = NumberTyped[event.amount_input]
          /\ ~Positive(Last(expenses').amount)
          /\ messagebox' = NoBox ]_vars

C5_Witness ==
    /\ Handled("add_expense")
    /\ event.amount_input = <<45, 51>>
    /\ Len(expenses) = 2
    /\ expenses[1].amount = Seven
    /\ expenses[2].amount = MinusThree
    /\ table[2][1] = <<8377, 45, 51, 46, 48, 48>>

(***************************************************************************)
(* C6.  As claimed, for the interleavings most favourable to the claim,    *)
(* those in which the timer's slot has run since the clock last moved (the *)
(* time label shows the current time when the Add handler runs): a new     *)
(* expense carries the date and the time that are current at its creation. *)
(***************************************************************************)
C6_StampedWithCurrentDateTime ==
    [][ (/\ HandlerStep("add_expense")
         /\ Len(expenses') = Len(expenses) + 1
         /\ time_input = FormatTime(Timeline[now])) =>
          /\ Last(expenses').date = FormatDate(Timeline[now])
          /\ Last(expenses').time = FormatTime(Timeline[now]) ]_vars

(***************************************************************************)
(* C7.  As claimed: after a failing user action (an amount that is no      *)
(* number, Others without a custom name, an export to a file that cannot   *)
(* be written) no exception has left the handler and the application is    *)
(* still running.                                                          *)
(***************************************************************************)
C7_NoFailureEscapes ==
    (\/ Handled("add_expense") /\ Rejected(event)
     \/ Handled("save_as_excel") /\ export.path = UnwritablePath)
    => (uncaught = NoException /\ running)

(***************************************************************************)
(* C8.  As claimed: the totals Generate-Report computes map exactly the    *)
(* categories that occur in an expense, each once, to the sum of the       *)
(* amounts of the expenses of that category; they add up to the sum of all *)
(* amounts; no expenses give the empty mapping.  The sums are read in the  *)
(* way that suits the expenses at hand: as sums of numbers, or as sums of  *)
(* floats taken in the order of the totals and of the list.                *)
(***************************************************************************)
C8_TotalsAreSums ==
    Reporting =>
        LET categories == CategoryTotals(expenses)
        IN  /\ Range(DictKeys(categories)) = {expenses[i].category : i \in 1..Len(expenses)}
            /\ NoDuplicates(DictKeys(categories))
            /\ \/ ExactSums(expenses, categories)
               \/ /\ FloatTotals(expenses, categories)
                  /\ FloatSum(DictValues(categories)) = FloatSum(AllAmounts(expenses))
            /\ (expenses = <<>> => categories = <<>>)

(***************************************************************************)
(* C8, amended.  The totals Generate-Report computes map exactly the       *)
(* categories that occur in an expense, each once, to the sum of the       *)
(* amounts of the expenses of that category as floats add up: taken in the *)
(* order of the list, each partial sum rounded to a double.  When all      *)
(* amounts are whole numbers whose magnitudes add up to less than 2^53,    *)
(* nothing is rounded: each total is the sum of its amounts and the totals *)
(* add up to the sum of all amounts.  No expenses give the empty mapping;  *)
(* a chart that is shown shows the totals.                                 *)
(***************************************************************************)
C8_TotalsAreFloatSums ==
    Reporting =>
        LET categories == CategoryTotals(expenses)
        IN  /\ Range(DictKeys(categories)) = {expenses[i].category : i \in 1..Len(expenses)}
            /\ NoDuplicates(DictKeys(categories))
            /\ FloatTotals(expenses, categories)
            /\ (WholeAmounts(expenses) => ExactSums(expenses, categories))
            /\ (expenses = <<>> => categories = <<>>)
            /\ (figure.shown =>
                  /\ figure.labels = DictKeys(categories)
                  /\ figure.sizes = DictValues(categories))

\* Food has 0.1 and 7, Gym has 7: the total of Food is the double nearest to
\* 7.1, which is not the sum of the two amounts.
C8_Witness ==
    /\ Handled("generate_report")
    /\ Len(expenses) = 3
    /\ AllAmounts(expenses) = <<Tenth, Seven, Seven>>
    /\ figure.shown
    /\ figure.labels = <<Food, Gym>>
    /\ figure.sizes = <<SevenTenth, Seven>>
    /\ RealOf(SevenTenth) # RealSum(<<Tenth, Seven>>)

(***************************************************************************)
(* C9.  With no expenses, Save-as-Excel shows its notice, opens no file    *)
(* dialog and writes no file, Generate-Report shows its notice and no      *)
(* chart, and neither changes anything else; a chart is shown, a file      *)
(* dialog opened or a file written only when there are expenses.           *)
(***************************************************************************)
C9_NothingToSaveOrReport ==
    [][ /\ (HandlerStep("save_as_excel") /\ expenses = <<>>) =>
              /\ messagebox' = NoSaveWarning
              /\ export' = NoExport
              /\ pc' = "box"
        /\ (HandlerStep("generate_report") /\ expenses = <<>>) =>
              /\ messagebox' = NoReportWarning
              /\ figure' = NoFigure
              /\ pc' = "box"
        /\ ((HandlerStep("save_as_excel") \/ HandlerStep("generate_report"))
               /\ expenses = <<>>) =>
              /\ uncaught' = NoException
              /\ running'
              /\ UNCHANGED <<expenses, table, category_input, date_input, time_input>>
        /\ (figure'.shown \/ export'.asked \/ export'.written) => expenses' # <<>> ]_vars

C9_Witness ==
    /\ Handled("save_as_excel")
    /\ expenses = <<>>
    /\ messagebox = NoSaveWarning
    /\ export = NoExport
    /\ time_input = FormatTime(Timeline[2])

(***************************************************************************)
(* C10.  Every expense's category is not empty once trimmed and is an item *)
(* of the drop-down, and the drop-down holds no item twice.                *)
(***************************************************************************)
C10_CategoriesAreItems ==
    /\ \A i \in 1..Len(expenses) :
          /\ Trimmed(expenses[i].category) # <<>>
          /\ expenses[i].category \in Range(category_input)
    /\ NoDuplicates(category_input)

\* The custom name of the first expense has been typed again under Others.
C10_Witness ==
    /\ Handled("add_expense")
    /\ event.currentText = Others
    /\ Effective(event) = Gym
    /\ Len(expenses) = 2
    /\ expenses[1].category = Gym
    /\ expenses[2].category = Gym
    /\ Len(category_input) = Len(PresetItems) + 1

=============================================================================
